---- MODULE Spec2Model ----
(***************************************************************************)
(* Loongson-3 HPET clock-event / clocksource driver                        *)
(* (arch/mips/include/asm/time.h, lines 81-387) and the board environment  *)
(* resolver (arch/mips/loongson64/common/env.c).                           *)
(*                                                                         *)
(* Every timer register access of the driver is one step of the processor  *)
(* that executes it.  Each processor has a call stack of frames: an        *)
(* operation invoked by the clock-event / clocksource framework, the       *)
(* interrupt handler on top of it when the timer interrupt is taken, and   *)
(* the operation the dispatched event handler calls back into.             *)
(***************************************************************************)
EXTENDS Integers, Sequences, FiniteSets, TLC

\* ------------------------------------------------------------------ bounds
\* number of logical processors
NCPU == 2
\* number of operations the framework invokes and interrupts taken in a run
MaxCalls == 2
\* how far the sampled counter values lie around 0, 2^31 and 2^32
Near == 1

CPUS == 1..NCPU

\* setup_hpet_timer runs on the boot processor
BootCpu == CHOOSE p \in CPUS : \A q \in CPUS : p <= q

\* ------------------------------------------------------- 32-bit arithmetic
\* A u32 is kept as its two 16-bit halves <<high, low>>: the unsigned value
\* is high * 2^16 + low.
W16 == 2^16

W0 == <<0, 0>>

W(h, l) == <<h, l>>

\* a + b (mod 2^32)
Add32(a, b) ==
    LET l == a[2] + b[2]
    IN  <<(a[1] + b[1] + (l \div W16)) % W16, l % W16>>

\* a - b (mod 2^32)
Sub32(a, b) ==
    LET l == a[2] - b[2]
    IN  <<(a[1] - b[1] + (l \div W16)) % W16, l % W16>>

\* (s32)w < 0
Neg32(w) == w[1] >= 2^15

\* the u32 of a small natural number
Small(n) == <<0, n>>

\* unsigned a < b
Less32(a, b) == a[1] < b[1] \/ (a[1] = b[1] /\ a[2] < b[2])

\* An unsigned long (64 bit on this platform) is <<upper 32 bits, u32>>;
\* the cast (u32) keeps the low word.
CastU32(d) == d[2]

HPET_MIN_CYCLES == 16

\* (s32)res < HPET_MIN_CYCLES, line 258
BelowMinCycles_unsigned(res) == res[1] = 0 /\ res[2] < HPET_MIN_CYCLES

BelowMinCycles(res) == Neg32(res) \/ (res[1] = 0 /\ res[2] < HPET_MIN_CYCLES)

\* ------------------------------------------------------------ register bits
\* Registers holding flag bits are sets of bit names.
T0Bits == {"LEVEL", "ENABLE", "PERIODIC", "SETVAL", "32BIT"}

CfgBits == {"ENABLE", "LEGACY"}

StatusBits == {"T0_IRS", "T1_IRS"}

\* the comparator holds a u32, or the period HPET_COMPARE_VAL
CmpVal(w) == [sym |-> "", v |-> w]

HPET_COMPARE_VAL == [sym |-> "HPET_COMPARE_VAL", v |-> W0]

Variants == {"LS2H", "LS7A", "RS780E", "DUMMY"}

VARIABLES
    \* resolver output (env.c)
    pch,
    \* time.h:101-104
    hpet_freq, hpet_t0_irq, hpet_mmio_base, hpet_irq_flags,
    \* SMBus PCI configuration registers and the order of the writes to them
    smbus, busWrites,
    \* the HPET register window
    HPET_CFG, COUNTER, COUNTER_HI, T0_CFG, T0_CMP, STATUS,
    \* hpet_lock: 0 when free, else the processor holding it
    hpet_lock,
    \* per-processor call stack
    stack,
    \* processors whose clock-event descriptor is populated and registered
    registered,
    irqInstalled, csrcRegistered,
    \* the system is between clocksource suspend and the end of resume
    suspended,
    \* operation invocations so far
    calls,
    \* history: reads of resolver state made after setup, as <<fn, object>>
    cfgReads,
    \* history: T0_CFG as the transitions applied one after another, in the
    \* order they acquired the lock, leave it
    seqT0,
    \* history: the registers as the last completed Shutdown left them
    \* (fn = "" once a register changed or another operation completed)
    lastShutdown,
    \* history: the mode transition that returned last ("" before the first)
    lastMode,
    \* the resolver prom_init_env (env.c): its position, the firmware input
    \* it has read and the globals it has written
    env

regs == <<HPET_CFG, COUNTER, COUNTER_HI, T0_CFG, T0_CMP, STATUS>>

timervals == <<hpet_freq, hpet_t0_irq, hpet_mmio_base, hpet_irq_flags>>

plat == <<pch, smbus, busWrites, registered, irqInstalled, csrcRegistered,
          suspended, env, lastMode>>

vars == <<pch, hpet_freq, hpet_t0_irq, hpet_mmio_base, hpet_irq_flags,
          smbus, busWrites, HPET_CFG, COUNTER, COUNTER_HI, T0_CFG, T0_CMP,
          STATUS, hpet_lock, stack, registered, irqInstalled,
          csrcRegistered, suspended, calls, cfgReads, seqT0, lastShutdown,
          lastMode, env>>

\* ------------------------------------------------------------------ frames
Frame(fn, pc, delta) ==
    [fn |-> fn, pc |-> pc, cfg |-> {}, cnt |-> W0, delta |-> delta,
     res |-> W0, r64 |-> <<W0, W0>>, ret |-> "", nwr |-> 0, ncb |-> 0,
     c0 |-> W0, c1 |-> W0, z |-> FALSE]

NoDelta == <<W0, W0>>

Depth(p) == Len(stack[p])

Top(p) == stack[p][Len(stack[p])]

PcIs(p, l) == stack[p] # <<>> /\ Top(p).pc = l

At(p, f, l) == stack[p] # <<>> /\ Top(p).fn = f /\ Top(p).pc = l

Upd(p, f) == [stack EXCEPT ![p] = SubSeq(@, 1, Len(@) - 1) \o <<f>>]

Goto(p, l) == Upd(p, [Top(p) EXCEPT !.pc = l])

PushF(p, f) == [stack EXCEPT ![p] = Append(@, f)]

PopF(p) == [stack EXCEPT ![p] = SubSeq(@, 1, Len(@) - 1)]

Snapshot == [cfg |-> HPET_CFG, cnt |-> COUNTER, hi |-> COUNTER_HI,
             t0 |-> T0_CFG, cmp |-> T0_CMP, st |-> STATUS]

NoSnapshot == [cfg |-> {}, cnt |-> W0, hi |-> 0, t0 |-> {},
               cmp |-> CmpVal(W0), st |-> {}]

NoDone == [fn |-> "", regs |-> NoSnapshot]

\* hpet_read / hpet_write address the window through hpet_mmio_base, fixed
\* at setup: no resolver state is read (time.h:127-135)
MmioBaseReads_reload(fn) == {<<fn, "loongson_pch">>}

MmioBaseReads(fn) == {}

\* smbus_read / smbus_write address the bridge through SMBUS_CFG_BASE, which
\* reads loongson_sysconf.ht_control_base (time.h:93, 109-117)
SmbusBaseReads(fn) == {<<fn, "loongson_sysconf">>}

SetupDone == irqInstalled

\* a step that reads (wr = FALSE) or writes (wr = TRUE) HPET register reg
Access(p, reg, wr) ==
    cfgReads' = cfgReads \cup MmioBaseReads(Top(p).fn)

\* a step that accesses no HPET register
Local == UNCHANGED cfgReads

\* a register change ends "nothing happened since the last Shutdown"
Touch == lastShutdown' = IF regs' = regs THEN lastShutdown ELSE NoDone

\* ------------------------------------------------- resolver: prom_init_env
\* Strings are sequences of characters.  The numbers below a u32 that fit
\* the model's integers are converted with U32.
U32(n) == <<n \div W16, n % W16>>

\* option is a prefix of p: strncmp(option, p, strlen(option)) == 0
\* (env.c:51)
Prefix(option, p) ==
    /\ Len(p) >= Len(option)
    /\ SubSeq(p, 1, Len(option)) = option

\* where the value is taken to start: p + strlen(option "=") (env.c:52)
ValueOffset_nosep(option) == Len(option)

ValueOffset(option) == Len(option) + 1

DigitChars == <<"0", "1", "2", "3", "4", "5", "6", "7", "8", "9">>

IsDigit(c) == \E i \in 1..Len(DigitChars) : DigitChars[i] = c

DigitVal(c) == (CHOOSE i \in 1..Len(DigitChars) : DigitChars[i] = c) - 1

\* the decimal digits at the head of s, accumulated into acc; ovf once the
\* value no longer fits 32 bits
RECURSIVE ParseDigits(_, _)
ParseDigits(s, acc) ==
    IF s = <<>> \/ ~IsDigit(s[1])
    THEN [acc EXCEPT !.rest = s]
    ELSE LET l == acc.v[2] * 10 + DigitVal(s[1])
             h == acc.v[1] * 10 + (l \div W16)
         IN  ParseDigits(Tail(s),
                         [n |-> acc.n + 1,
                          v |-> IF acc.ovf \/ h >= W16 THEN W0
                                ELSE <<h, l % W16>>,
                          ovf |-> acc.ovf \/ h >= W16,
                          rest |-> <<>>])

\* kstrtou32(s, 10, &res): an optional '+', at least one digit, an optional
\* final newline and nothing else; a value that does not fit 32 bits is an
\* error.  ok tells whether res is written.
Kstrtou32(s) ==
    LET s1 == IF s # <<>> /\ s[1] = "+" THEN Tail(s) ELSE s
        d == ParseDigits(s1, [n |-> 0, v |-> W0, ovf |-> FALSE,
                              rest |-> <<>>])
        r == IF d.rest # <<>> /\ d.rest[1] = "\n" THEN Tail(d.rest)
             ELSE d.rest
    IN  [ok |-> d.n > 0 /\ ~d.ovf /\ r = <<>>, v |-> d.v]

\* what the bytes behind a string's terminator may parse as
Garbage == {W(0, 7)}

\* parse_even_earlier(res, option, p), env.c:47-53: the values res may hold
\* afterwards.  An entry that is the bare key is read past its terminator.
ParseEvenEarlier(res, option, p) ==
    IF ~Prefix(option, p) THEN {res}
    ELSE IF Len(p) < ValueOffset(option) THEN {res} \cup Garbage
    ELSE LET k == Kstrtou32(SubSeq(p, ValueOffset(option) + 1, Len(p)))
         IN  {IF k.ok THEN k.v ELSE res}

KeyCpuclock == <<"c", "p", "u", "c", "l", "o", "c", "k">>

KeyMemsize == <<"m", "e", "m", "s", "i", "z", "e">>

KeyHighmemsize == <<"h", "i", "g", "h", "m", "e", "m", "s", "i", "z", "e">>

\* "cpuclock=800000000"
ArgCpuclock ==
    <<"c", "p", "u", "c", "l", "o", "c", "k", "=", "8", "0", "0", "0", "0", "0", "0", "0", "0">>

\* "cpuclock=0"
ArgCpuclockZero ==
    <<"c", "p", "u", "c", "l", "o", "c", "k", "=", "0">>

\* "cpuclock=4294967295"
ArgCpuclockMax ==
    <<"c", "p", "u", "c", "l", "o", "c", "k", "=", "4", "2", "9", "4", "9", "6", "7", "2", "9", "5">>

\* "cpuclock=4294967296"
ArgCpuclockOver ==
    <<"c", "p", "u", "c", "l", "o", "c", "k", "=", "4", "2", "9", "4", "9", "6", "7", "2", "9", "6">>

\* "memsize=512"
ArgMemsize ==
    <<"m", "e", "m", "s", "i", "z", "e", "=", "5", "1", "2">>

\* "highmemsize=7"
ArgHighmemsize ==
    <<"h", "i", "g", "h", "m", "e", "m", "s", "i", "z", "e", "=", "7">>

\* "foo=1"
ArgOther ==
    <<"f", "o", "o", "=", "1">>

\* "cpuclockX5"
ArgCpuclockNoSep ==
    <<"c", "p", "u", "c", "l", "o", "c", "k", "X", "5">>

\* "cpuclock"
ArgCpuclockBare ==
    <<"c", "p", "u", "c", "l", "o", "c", "k">>

Entries == {ArgCpuclock, ArgCpuclockZero, ArgCpuclockMax, ArgCpuclockOver,
            ArgMemsize, ArgHighmemsize, ArgOther, ArgCpuclockNoSep,
            ArgCpuclockBare}

\* longest legacy argument list
MaxArgs == 2

ArgLists == UNION {[1..n -> Entries] : n \in 0..MaxArgs}

\* build maxima (CONFIG_NR_CPUS, boot_param.h), scaled down
NR_CPUS == 6

MAX_UARTS == 2

MAX_SENSORS == 2

\* loongson_sysconf in static storage
SysZero ==
    [cputype |-> "0", cores_per_node |-> 0, cores_per_package |-> 0,
     ht_control_base |-> "0", workarounds |-> {}, nr_cpus |-> 0,
     nr_nodes |-> 0, dma_mask_bits |-> 0, ec_sci_irq |-> 0, nr_uarts |-> 0,
     nr_sensors |-> 0]

\* the firmware fields the current section of prom_init_env has read
NoInput ==
    [cputype |-> "", cpu_clock_freq |-> W0, nr_cpus |-> 0,
     dma_mask_bits |-> 0, name |-> <<>>, vers |-> 0, of_dtb_addr |-> "0",
     workarounds |-> {}, nr_uarts |-> 0, nr_sensors |-> 0, prid |-> ""]

\* the resolver's state on entry to prom_init_env; lefi is the build's
\* CONFIG_LEFI_FIRMWARE_INTERFACE, list the legacy argument list
EnvBoot(lefi, list) ==
    [pc |-> IF lefi THEN "cpu" ELSE "args", lefi |-> lefi, list |-> list,
     args |-> list, in |-> NoInput, cpu_clock_freq |-> W0, memsize |-> W0,
     highmemsize |-> W0, sys |-> SysZero,
     smp_group |-> <<"0", "0", "0", "0">>, fdt |-> "0", copiedU |-> 0,
     copiedS |-> 0]

\* The driver's specifications begin after the resolver has returned; of
\* its output the driver reads loongson_pch (pch) and ht_control_base.
EnvSettled == [EnvBoot(TRUE, <<>>) EXCEPT !.pc = "done"]

\* what a step of the resolver leaves alone
driver == <<hpet_freq, hpet_t0_irq, hpet_mmio_base, hpet_irq_flags, smbus,
            busWrites, HPET_CFG, COUNTER, COUNTER_HI, T0_CFG, T0_CMP, STATUS,
            hpet_lock, stack, registered, irqInstalled, csrcRegistered,
            suspended, calls, cfgReads, seqT0, lastShutdown, lastMode>>

\* ---- legacy path, env.c:62-82
\* lines 69-75: one round of the loop over the argument pointers
LegacyEntry ==
    /\ env.pc = "args"
    /\ env.args # <<>>
    /\ LET l == Head(env.args)
       IN  \E f \in ParseEvenEarlier(env.cpu_clock_freq, KeyCpuclock, l),
              m \in ParseEvenEarlier(env.memsize, KeyMemsize, l),
              h \in ParseEvenEarlier(env.highmemsize, KeyHighmemsize, l) :
             env' = [env EXCEPT !.cpu_clock_freq = f, !.memsize = m,
                                !.highmemsize = h, !.args = Tail(env.args)]
    /\ UNCHANGED <<pch, driver>>

\* lines 76-80: the list's NULL ends the loop
LegacyEnd ==
    /\ env.pc = "args"
    /\ env.args = <<>>
    /\ env' = [env EXCEPT
                 !.memsize = IF env.memsize = W0 THEN U32(256) ELSE @,
                 !.sys.nr_uarts = 1,
                 !.pc = "freq"]
    /\ pch' = "DUMMY"
    /\ UNCHANGED driver

\* ---- modern path, env.c:84-233
Family3A == {"Legacy_3A", "Loongson_3A"}

Family3B == {"Legacy_3B", "Loongson_3B"}

CpuTypes == Family3A \cup Family3B \cup {"Loongson_2F"}

CoresPerNode(t) == IF t \in Family3A \cup Family3B THEN 4 ELSE 1

CoresPerPackage_flat(t) == CoresPerNode(t)

CoresPerPackage(t) ==
    CASE t \in Family3A -> 4
      [] t \in Family3B -> 8
      [] OTHER -> 1

SmpGroup(t, old) ==
    CASE t \in Family3A ->
           <<"0x900000003ff01000", "0x900010003ff01000",
             "0x900020003ff01000", "0x900030003ff01000">>
      [] t \in Family3B ->
           <<"0x900000003ff01000", "0x900010003ff05000",
             "0x900020003ff09000", "0x900030003ff0d000">>
      [] OTHER -> old

HtControlBase(t, old) ==
    CASE t \in Family3A -> "0x90000EFDFB000000"
      [] t \in Family3B -> "0x90001EFDFB000000"
      [] OTHER -> old

\* lines 131, 154: the default case assigns no workaround
Workaround(t, old) ==
    CASE t \in Family3A -> {"CPUFREQ"}
      [] t \in Family3B -> {"CPUHOTPLUG"}
      [] OTHER -> old

\* lines 107-160
EnvCpu ==
    /\ env.pc = "cpu"
    /\ \E t \in CpuTypes, f \in {W0, U32(800000000)} :
         env' = [env EXCEPT
                   !.in = [NoInput EXCEPT !.cputype = t,
                                          !.cpu_clock_freq = f],
                   !.cpu_clock_freq = f,
                   !.sys.cputype = t,
                   !.sys.cores_per_node = CoresPerNode(t),
                   !.sys.cores_per_package = CoresPerPackage(t),
                   !.smp_group = SmpGroup(t, @),
                   !.sys.ht_control_base = HtControlBase(t, @),
                   !.sys.workarounds = Workaround(t, @),
                   !.pc = "counts"]
    /\ UNCHANGED <<pch, driver>>

\* the last is 2^31 - 1
CpuCounts == {0, 1, NR_CPUS - 1, NR_CPUS, NR_CPUS + 1, (2^30 - 1) + 2^30}

ClampCpus_nozero(n) == IF n > NR_CPUS THEN NR_CPUS ELSE n

\* lines 162, 172-173
ClampCpus(n) == IF n > NR_CPUS \/ n = 0 THEN NR_CPUS ELSE n

\* lines 174-176
NrNodes(cpus, per) == (cpus + per - 1) \div per

EnvCounts ==
    /\ env.pc = "counts"
    /\ \E n \in CpuCounts :
         env' = [env EXCEPT
                   !.in = [NoInput EXCEPT !.nr_cpus = n],
                   !.sys.nr_cpus = ClampCpus(n),
                   !.sys.nr_nodes = NrNodes(ClampCpus(n),
                                            env.sys.cores_per_node),
                   !.pc = "dma"]
    /\ UNCHANGED <<pch, driver>>

DmaWidths == {0, 31, 32, 33, 64, 65, W16 - 1}

ClampDma_exclusive(w) == IF w < 32 \/ w >= 64 THEN 32 ELSE w

\* lines 185-188
ClampDma(w) == IF w < 32 \/ w > 64 THEN 32 ELSE w

EnvDma ==
    /\ env.pc = "dma"
    /\ \E w \in DmaWidths :
         env' = [env EXCEPT
                   !.in = [NoInput EXCEPT !.dma_mask_bits = w],
                   !.sys.dma_mask_bits = ClampDma(w),
                   !.pc = "hub"]
    /\ UNCHANGED <<pch, driver>>

\* "Loongson-7A1000"
Board7A1000 ==
    <<"L", "o", "o", "n", "g", "s", "o", "n", "-", "7", "A", "1", "0", "0", "0">>

\* "LS2H"
Board2H ==
    <<"L", "S", "2", "H">>

\* "ls2h"
BoardLower2h ==
    <<"l", "s", "2", "h">>

\* "ls7a"
BoardLower7a ==
    <<"l", "s", "7", "a">>

\* "2H7A"
Board2H7A ==
    <<"2", "H", "7", "A">>

\* "7A2H"
Board7A2H ==
    <<"7", "A", "2", "H">>

\* "RS780E"
Board780 ==
    <<"R", "S", "7", "8", "0", "E">>

\* "2-H7-A"
BoardSplit ==
    <<"2", "-", "H", "7", "-", "A">>

BoardNames == {Board7A1000, Board2H, BoardLower2h, BoardLower7a, Board2H7A,
               Board7A2H, Board780, BoardSplit}

\* strstr(name, pat) is not NULL
Contains(name, pat) ==
    \E i \in 1..(Len(name) - Len(pat) + 1) :
        SubSeq(name, i, i + Len(pat) - 1) = pat

SelectHub_7Afirst(name) ==
    IF Contains(name, <<"7", "A">>) THEN "LS7A"
    ELSE IF Contains(name, <<"2", "H">>) THEN "LS2H"
    ELSE "RS780E"

\* lines 192-204: the chain of strstr tests
SelectHub(name) ==
    IF Contains(name, <<"2", "H">>) THEN "LS2H"
    ELSE IF Contains(name, <<"7", "A">>) THEN "LS7A"
    ELSE "RS780E"

\* 0x80 and 0x07
EcSciIrq(hub) == IF hub = "LS2H" THEN 128 ELSE 7

DefaultFdt(hub) ==
    CASE hub = "LS2H" -> "__dtb_loongson3_ls2h_begin"
      [] hub = "LS7A" -> "__dtb_loongson3_ls7a_begin"
      [] OTHER -> "__dtb_loongson3_rs780_begin"

\* lines 205-206
FdtBlob(hub, vers, addr) ==
    IF vers >= 2 /\ addr # "0" THEN addr ELSE DefaultFdt(hub)

Versions == {1, 2, 3}

DtbAddrs == {"0", "of_dtb_addr"}

EnvHub ==
    /\ env.pc = "hub"
    /\ \E name \in BoardNames, vers \in Versions, addr \in DtbAddrs :
         /\ env' = [env EXCEPT
                      !.in = [NoInput EXCEPT !.name = name, !.vers = vers,
                                             !.of_dtb_addr = addr],
                      !.sys.ec_sci_irq = EcSciIrq(SelectHub(name)),
                      !.fdt = FdtBlob(SelectHub(name), vers, addr),
                      !.pc = "sys"]
         /\ pch' = SelectHub(name)
    /\ UNCHANGED driver

UartCounts == {0, 1, MAX_UARTS, MAX_UARTS + 1}

SensorCounts == {0, MAX_SENSORS, MAX_SENSORS + 1}

FwWorkarounds == {{}, {"CPUHOTPLUG"}}

ClampUarts_none(n) == n

\* lines 222-224
ClampUarts(n) == IF n < 1 \/ n > MAX_UARTS THEN 1 ELSE n

\* lines 228-230
ClampSensors(n) == IF n > MAX_SENSORS THEN 0 ELSE n

\* lines 220-233: copiedU and copiedS are the numbers of descriptors the
\* two memcpy calls copy
EnvSys ==
    /\ env.pc = "sys"
    /\ \E w \in FwWorkarounds, u \in UartCounts, s \in SensorCounts :
         env' = [env EXCEPT
                   !.in = [NoInput EXCEPT !.workarounds = w, !.nr_uarts = u,
                                          !.nr_sensors = s],
                   !.sys.workarounds = @ \cup w,
                   !.sys.nr_uarts = ClampUarts(u),
                   !.copiedU = ClampUarts(u),
                   !.sys.nr_sensors = ClampSensors(s),
                   !.copiedS = ClampSensors(s),
                   !.pc = "freq"]
    /\ UNCHANGED <<pch, driver>>

\* ---- both paths, env.c:235-260
Prids == {"LOONGSON2E", "LOONGSON2F", "LOONGSON3A_R1", "LOONGSON3A_R3_1",
          "LOONGSON3B_R2", "other"}

\* lines 237-258
DefaultFreq(prid) ==
    CASE prid = "LOONGSON2E" -> U32(533080000)
      [] prid = "LOONGSON2F" -> U32(797000000)
      [] prid \in {"LOONGSON3A_R1", "LOONGSON3A_R2_0", "LOONGSON3A_R2_1",
                   "LOONGSON3A_R3_0", "LOONGSON3A_R3_1"} -> U32(900000000)
      [] prid \in {"LOONGSON3B_R1", "LOONGSON3B_R2"} -> U32(1000000000)
      [] OTHER -> U32(100000000)

EnvFreq ==
    /\ env.pc = "freq"
    /\ IF env.cpu_clock_freq = W0
       THEN \E prid \in Prids :
              env' = [env EXCEPT
                        !.in = [NoInput EXCEPT !.prid = prid],
                        !.cpu_clock_freq = DefaultFreq(prid),
                        !.pc = "done"]
       ELSE env' = [env EXCEPT !.in = NoInput, !.pc = "done"]
    /\ UNCHANGED <<pch, driver>>

EnvSteps ==
    \/ LegacyEntry \/ LegacyEnd
    \/ EnvCpu \/ EnvCounts \/ EnvDma \/ EnvHub \/ EnvSys
    \/ EnvFreq

\* ------------------------------------------------------------------- Init
\* The state at boot, before setup_hpet_timer runs on the boot processor:
\* the driver's globals are zero (static storage), the hub variant is what
\* the resolver selected, and the registers hold what firmware left there.
InitWith(Hubs, T0s, CFGs, CNTs, HIs, STs, Others) ==
    /\ pch \in Hubs
    /\ hpet_freq = "0" /\ hpet_t0_irq = "0" /\ hpet_mmio_base = "0"
    /\ hpet_irq_flags = {}
    /\ smbus \in [b4 : {"0"}, r40 : Others, r64 : Others]
    /\ busWrites = <<>>
    /\ HPET_CFG \in CFGs
    /\ COUNTER \in CNTs
    /\ COUNTER_HI \in HIs
    /\ T0_CFG \in T0s
    /\ T0_CMP = CmpVal(W0)
    /\ STATUS \in STs
    /\ hpet_lock = 0
    /\ stack = [p \in CPUS |->
                  IF p = BootCpu
                  THEN <<Frame("setup_hpet_timer", "select", NoDelta)>>
                  ELSE <<>>]
    /\ registered = {}
    /\ irqInstalled = FALSE
    /\ csrcRegistered = FALSE
    /\ suspended = FALSE
    /\ calls = 0
    /\ cfgReads = {}
    /\ seqT0 = T0_CFG
    /\ lastShutdown = NoDone
    /\ lastMode = ""

\* ------------------------------------------------------- control flow table
\* where a shared helper returns to, by the function that called it
AfterSetup_skipregister(fn) ==
    IF fn = "setup_hpet_timer" THEN "setup_irq" ELSE "stop_rd"

AfterSetup(fn) == IF fn = "setup_hpet_timer" THEN "register" ELSE "stop_rd"

AfterReset(fn) == IF fn = "hpet_set_state_periodic" THEN "cmp0" ELSE "start_rd"

AfterStart(fn) == IF fn = "hpet_set_state_periodic" THEN "unlock" ELSE "ret"

Transitions == {"hpet_set_state_periodic", "hpet_set_state_shutdown",
                "hpet_set_state_oneshot"}

LockTakers == Transitions \cup {"hpet_tick_resume"}

\* what a transition makes of T0_CFG value c (time.h:184-188, 208-210,
\* 223-231)
PeriodicCfg_keeplevel(c) ==
    c \cup {"ENABLE", "PERIODIC", "SETVAL", "32BIT"} \cup hpet_irq_flags

PeriodicCfg(c) ==
    (c \ {"LEVEL"}) \cup {"ENABLE", "PERIODIC", "SETVAL", "32BIT"}
        \cup hpet_irq_flags

ShutdownCfg_toggle(c) ==
    IF "ENABLE" \in c THEN c \ {"ENABLE"} ELSE c \cup {"ENABLE"}

ShutdownCfg(c) == c \ {"ENABLE"}

OneshotCfg_no32(c) == (c \ {"PERIODIC"}) \cup {"ENABLE"}

OneshotCfg(c) == (c \ {"PERIODIC"}) \cup {"ENABLE", "32BIT"}

NewCfg_oneshotoff(fn, c) ==
    CASE fn = "hpet_set_state_periodic" -> PeriodicCfg(c)
      [] fn = "hpet_set_state_shutdown" -> ShutdownCfg(c)
      [] fn = "hpet_set_state_oneshot" -> (c \ {"PERIODIC"}) \cup {"32BIT"}
      [] OTHER -> c

NewCfg(fn, c) ==
    CASE fn = "hpet_set_state_periodic" -> PeriodicCfg(c)
      [] fn = "hpet_set_state_shutdown" -> ShutdownCfg(c)
      [] fn = "hpet_set_state_oneshot" -> OneshotCfg(c)
      [] OTHER -> c

\* -------------------------------------------------------- setup_hpet_timer
\* a setup that returns early for a hub type it does not know
SelectTimer_validated(p) ==
    /\ At(p, "setup_hpet_timer", "select")
    /\ stack' = Goto(p, IF pch \in {"LS2H", "LS7A", "RS780E"} THEN "pch_rd"
                        ELSE "ret")
    /\ Local
    /\ UNCHANGED <<plat, timervals, regs, hpet_lock, calls, seqT0,
                   lastShutdown>>

\* lines 307-326: the switch on loongson_pch->type; no case for another type
SelectTimer(p) ==
    /\ At(p, "setup_hpet_timer", "select")
    /\ hpet_freq' = CASE pch = "LS2H" -> "LS2H_HPET_FREQ"
                      [] pch = "LS7A" -> "LS7A_HPET_FREQ"
                      [] pch = "RS780E" -> "RS780_HPET_FREQ"
                      [] OTHER -> hpet_freq
    /\ hpet_t0_irq' = CASE pch = "LS2H" -> "LS2H_HPET_T0_IRQ"
                        [] pch = "LS7A" -> "LS7A_HPET_T0_IRQ"
                        [] pch = "RS780E" -> "RS780_HPET_T0_IRQ"
                        [] OTHER -> hpet_t0_irq
    /\ hpet_mmio_base' = CASE pch = "LS2H" -> "LS2H_HPET_BASE"
                           [] pch = "LS7A" -> "LS7A_HPET_BASE"
                           [] pch = "RS780E" -> "RS780_HPET_BASE"
                           [] OTHER -> hpet_mmio_base
    /\ hpet_irq_flags' = CASE pch \in {"LS2H", "LS7A"} -> {"LEVEL"}
                           [] pch = "RS780E" -> {}
                           [] OTHER -> hpet_irq_flags
    /\ stack' = Goto(p, "pch_rd")
    /\ Local
    /\ UNCHANGED <<plat, regs, hpet_lock, calls, seqT0, lastShutdown>>

\* hpet_setup, line 290: the test of loongson_pch->type
HpetSetupTest(p) ==
    /\ PcIs(p, "pch_rd")
    /\ stack' = Goto(p, IF pch = "RS780E" THEN "b4_wr"
                        ELSE AfterSetup(Top(p).fn))
    /\ cfgReads' = IF SetupDone
                   THEN cfgReads \cup {<<Top(p).fn, "loongson_pch">>}
                   ELSE cfgReads
    /\ UNCHANGED <<plat, timervals, regs, hpet_lock, calls, seqT0, lastShutdown>>

\* a step on the SMBus configuration space
SmbusStep(p, offset, wr) ==
    /\ cfgReads' = IF SetupDone
                   THEN cfgReads \cup SmbusBaseReads(Top(p).fn)
                   ELSE cfgReads
    /\ busWrites' = IF wr THEN Append(busWrites, offset) ELSE busWrites
    /\ UNCHANGED <<lastMode, env, pch, registered, irqInstalled, csrcRegistered, suspended,
                   timervals,
                   regs, hpet_lock, calls, seqT0, lastShutdown>>

\* line 292: smbus_write(SMBUS_PCI_REGB4, HPET_ADDR)
SetBaseAddress(p) ==
    /\ PcIs(p, "b4_wr")
    /\ smbus' = [smbus EXCEPT !.b4 = "HPET_ADDR"]
    /\ stack' = Goto(p, "r40_rd")
    /\ SmbusStep(p, "REGB4", TRUE)

\* line 294: smbus_enable(SMBUS_PCI_REG40, 1 << 28)
EnableDecodeRead(p) ==
    /\ PcIs(p, "r40_rd")
    /\ stack' = Upd(p, [Top(p) EXCEPT !.cfg = smbus.r40, !.pc = "r40_wr"])
    /\ smbus' = smbus
    /\ SmbusStep(p, "REG40", FALSE)

EnableDecodeWrite(p) ==
    /\ PcIs(p, "r40_wr")
    /\ smbus' = [smbus EXCEPT !.r40 = Top(p).cfg \cup {"bit28"}]
    /\ stack' = Goto(p, "r64_rd")
    /\ SmbusStep(p, "REG40", TRUE)

\* line 296: smbus_enable(SMBUS_PCI_REG64, 1 << 10)
EnableIrqRead(p) ==
    /\ PcIs(p, "r64_rd")
    /\ stack' = Upd(p, [Top(p) EXCEPT !.cfg = smbus.r64, !.pc = "r64_wr"])
    /\ smbus' = smbus
    /\ SmbusStep(p, "REG64", FALSE)

EnableIrqWrite(p) ==
    /\ PcIs(p, "r64_wr")
    /\ smbus' = [smbus EXCEPT !.r64 = Top(p).cfg \cup {"bit10"}]
    /\ stack' = Goto(p, AfterSetup(Top(p).fn))
    /\ SmbusStep(p, "REG64", TRUE)

\* lines 330-347: populate this processor's descriptor and register it
RegisterDevice(p) ==
    /\ At(p, "setup_hpet_timer", "register")
    /\ registered' = registered \cup {p}
    /\ stack' = Goto(p, "setup_irq")
    /\ Local
    /\ UNCHANGED <<lastMode, env, pch, smbus, busWrites, irqInstalled, csrcRegistered,
                   suspended, timervals, regs, hpet_lock, calls, seqT0, lastShutdown>>

\* line 348: setup_irq(hpet_t0_irq, &hpet_irq)
SetupIrq(p) ==
    /\ At(p, "setup_hpet_timer", "setup_irq")
    /\ irqInstalled' = TRUE
    /\ stack' = Goto(p, "ret")
    /\ Local
    /\ UNCHANGED <<lastMode, env, pch, smbus, busWrites, registered, csrcRegistered,
                   suspended, timervals, regs, hpet_lock, calls, seqT0, lastShutdown>>

\* lines 381-387: init_hpet_clocksource, an initcall after setup
InitClocksource ==
    /\ SetupDone
    /\ ~csrcRegistered
    /\ \A q \in CPUS : stack[q] = <<>>
    /\ csrcRegistered' = TRUE
    /\ UNCHANGED <<lastMode, env, pch, smbus, busWrites, registered, irqInstalled, suspended,
                   timervals, regs, hpet_lock, stack, calls, cfgReads, seqT0, lastShutdown>>

\* ------------------------------------------------------------- invocation
\* The framework reaches the driver only through the descriptor registered
\* at line 347 (callbacks, lines 334-338), the irqaction installed at line
\* 348 and the clocksource registered at line 384.
CanCall(p) ==
    /\ SetupDone
    /\ ~suspended
    /\ stack[p] = <<>>
    /\ calls < MaxCalls

Invoke(p, f) ==
    /\ stack' = PushF(p, f)
    /\ calls' = calls + 1
    /\ Local
    /\ UNCHANGED <<plat, timervals, regs, hpet_lock, seqT0, lastShutdown>>

\* cd->set_state_shutdown / set_state_periodic / set_state_oneshot /
\* tick_resume
CallTransition(p) ==
    /\ CanCall(p)
    /\ \E fn \in LockTakers : Invoke(p, Frame(fn, "lock", NoDelta))

\* cd->set_next_event(delta, cd)
CallNextEvent(p, D) ==
    /\ CanCall(p)
    /\ \E d \in D : Invoke(p, Frame("hpet_next_event", "cnt_rd", d))

\* csrc_hpet.read
CallReadCounter(p) ==
    /\ CanCall(p)
    /\ csrcRegistered
    /\ Invoke(p, Frame("hpet_read_counter", "rc_rd", NoDelta))

\* csrc_hpet.suspend and csrc_hpet.resume are called on the suspend path,
\* with one processor running and its interrupts off
CallSuspend(p) ==
    /\ CanCall(p)
    /\ csrcRegistered
    /\ \A q \in CPUS : stack[q] = <<>>
    /\ stack' = PushF(p, Frame("hpet_suspend", "ret", NoDelta))
    /\ calls' = calls + 1
    /\ suspended' = TRUE
    /\ Local
    /\ UNCHANGED <<lastMode, env, pch, smbus, busWrites, registered, irqInstalled,
                   csrcRegistered, timervals, regs, hpet_lock, seqT0,
                   lastShutdown>>

CallResume(p) ==
    /\ suspended
    /\ \A q \in CPUS : stack[q] = <<>>
    /\ Invoke(p, Frame("hpet_resume", "pch_rd", NoDelta))

\* The timer interrupt line (shared) is taken on processor p: when p is
\* idle, or inside an operation that took hpet_lock with spin_lock, which
\* leaves the local interrupts as the caller had them.
TakeIrq(p) ==
    /\ SetupDone
    /\ ~suspended
    /\ calls < MaxCalls
    /\ \/ stack[p] = <<>>
       \/ Depth(p) = 1 /\ Top(p).fn \in LockTakers
    /\ Invoke(p, Frame("hpet_irq_handler", "st_rd", NoDelta))

\* return to the caller
Return(p) ==
    /\ PcIs(p, "ret")
    /\ stack' = PopF(p)
    /\ suspended' = IF Top(p).fn = "hpet_resume" THEN FALSE ELSE suspended
    /\ lastShutdown' = IF Top(p).fn = "hpet_set_state_shutdown"
                     THEN [fn |-> Top(p).fn, regs |-> Snapshot]
                     ELSE NoDone
    /\ lastMode' = IF Top(p).fn \in Transitions THEN Top(p).fn ELSE lastMode
    /\ Local
    /\ UNCHANGED <<env, pch, smbus, busWrites, registered, irqInstalled,
                   csrcRegistered, timervals, regs, hpet_lock, calls, seqT0>>

\* ---------------------------------------------------------------- hpet_lock
LockFree_ignored(l) == TRUE

\* spin_lock(&hpet_lock) proceeds when the lock is free
LockFree(l) == l = 0

FirstLocked(fn) ==
    CASE fn = "hpet_set_state_periodic" -> "stop_rd"
      [] fn = "hpet_tick_resume" -> "unlock"
      [] OTHER -> "t0_rd"

SpinLock(p) ==
    /\ PcIs(p, "lock")
    /\ LockFree(hpet_lock)
    /\ hpet_lock' = p
    /\ seqT0' = NewCfg(Top(p).fn, seqT0)
    /\ stack' = Goto(p, FirstLocked(Top(p).fn))
    /\ Local
    /\ UNCHANGED <<plat, timervals, regs, calls, lastShutdown>>

SpinUnlock(p) ==
    /\ PcIs(p, "unlock")
    /\ hpet_lock' = 0
    /\ stack' = Upd(p, [Top(p) EXCEPT !.pc = "ret", !.ret = "0"])
    /\ Local
    /\ UNCHANGED <<plat, timervals, regs, calls, seqT0, lastShutdown>>

\* ------------------------------------------------------ counter start/stop
\* a register step of processor p that leaves everything but the registers,
\* its own frame and the histories alone
RegStep(p, reg, wr) ==
    /\ Access(p, reg, wr)
    /\ IF wr THEN Touch ELSE UNCHANGED lastShutdown
    /\ UNCHANGED <<plat, timervals, hpet_lock, calls, seqT0>>

\* hpet_stop_counter, lines 145-151
StopCounterRead(p) ==
    /\ PcIs(p, "stop_rd")
    /\ stack' = Upd(p, [Top(p) EXCEPT !.cfg = HPET_CFG, !.pc = "stop_wr"])
    /\ UNCHANGED regs
    /\ RegStep(p, "HPET_CFG", FALSE)

StopCounterWrite(p) ==
    /\ PcIs(p, "stop_wr")
    /\ HPET_CFG' = Top(p).cfg \ {"ENABLE"}
    /\ stack' = Goto(p, "rst_lo")
    /\ UNCHANGED <<COUNTER, COUNTER_HI, T0_CFG, T0_CMP, STATUS>>
    /\ RegStep(p, "HPET_CFG", TRUE)

\* hpet_reset_counter, lines 153-157
ResetCounterLow(p) ==
    /\ PcIs(p, "rst_lo")
    /\ COUNTER' = W0
    /\ stack' = Upd(p, [Top(p) EXCEPT !.z = "ENABLE" \notin HPET_CFG,
                                      !.pc = "rst_hi"])
    /\ UNCHANGED <<HPET_CFG, COUNTER_HI, T0_CFG, T0_CMP, STATUS>>
    /\ RegStep(p, "HPET_COUNTER", TRUE)

ResetCounterHigh(p) ==
    /\ PcIs(p, "rst_hi")
    /\ COUNTER_HI' = 0
    /\ stack' = Goto(p, AfterReset(Top(p).fn))
    /\ UNCHANGED <<HPET_CFG, COUNTER, T0_CFG, T0_CMP, STATUS>>
    /\ RegStep(p, "HPET_COUNTER", TRUE)

\* hpet_start_counter, lines 137-143
StartCounterRead(p) ==
    /\ PcIs(p, "start_rd")
    /\ stack' = Upd(p, [Top(p) EXCEPT !.cfg = HPET_CFG, !.pc = "start_wr"])
    /\ UNCHANGED regs
    /\ RegStep(p, "HPET_CFG", FALSE)

StartCfg_nop(c) == c

StartCfg(c) == c \cup {"ENABLE"}

StartCounterWrite(p) ==
    /\ PcIs(p, "start_wr")
    /\ HPET_CFG' = StartCfg(Top(p).cfg)
    /\ stack' = Goto(p, AfterStart(Top(p).fn))
    /\ UNCHANGED <<COUNTER, COUNTER_HI, T0_CFG, T0_CMP, STATUS>>
    /\ RegStep(p, "HPET_CFG", TRUE)

\* ------------------------------------------------------- mode transitions
\* line 181: hpet_write(HPET_T0_CMP, 0)
ClearComparator(p) ==
    /\ PcIs(p, "cmp0")
    /\ T0_CMP' = CmpVal(W0)
    /\ stack' = Goto(p, "t0_rd")
    /\ UNCHANGED <<HPET_CFG, COUNTER, COUNTER_HI, T0_CFG, STATUS>>
    /\ RegStep(p, "HPET_T0_CMP", TRUE)

\* lines 184, 208, 223: cfg = hpet_read(HPET_T0_CFG)
T0CfgRead(p) ==
    /\ PcIs(p, "t0_rd")
    /\ stack' = Upd(p, [Top(p) EXCEPT !.cfg = T0_CFG, !.pc = "t0_wr"])
    /\ UNCHANGED regs
    /\ RegStep(p, "HPET_T0_CFG", FALSE)

\* lines 188, 210, 231: hpet_write(HPET_T0_CFG, cfg)
T0CfgWrite(p) ==
    /\ PcIs(p, "t0_wr")
    /\ T0_CFG' = NewCfg(Top(p).fn, Top(p).cfg)
    /\ stack' = Goto(p, IF Top(p).fn = "hpet_set_state_periodic"
                        THEN "cmp1" ELSE "unlock")
    /\ UNCHANGED <<HPET_CFG, COUNTER, COUNTER_HI, T0_CMP, STATUS>>
    /\ RegStep(p, "HPET_T0_CFG", TRUE)

\* line 191: hpet_write(HPET_T0_CMP, HPET_COMPARE_VAL)
SetComparator(p) ==
    /\ PcIs(p, "cmp1")
    /\ T0_CMP' = HPET_COMPARE_VAL
    /\ stack' = Goto(p, "cmp2")
    /\ UNCHANGED <<HPET_CFG, COUNTER, COUNTER_HI, T0_CFG, STATUS>>
    /\ RegStep(p, "HPET_T0_CMP", TRUE)

\* lines 192-193: udelay(1), then the same write again
SetComparatorAgain(p) ==
    /\ PcIs(p, "cmp2")
    /\ T0_CMP' = HPET_COMPARE_VAL
    /\ stack' = Goto(p, "start_rd")
    /\ UNCHANGED <<HPET_CFG, COUNTER, COUNTER_HI, T0_CFG, STATUS>>
    /\ RegStep(p, "HPET_T0_CMP", TRUE)

\* ---------------------------------------------------------- hpet_next_event
\* line 252: cnt = hpet_read(HPET_COUNTER)
NextEventRead(p) ==
    /\ At(p, "hpet_next_event", "cnt_rd")
    /\ stack' = Upd(p, [Top(p) EXCEPT !.cnt = COUNTER, !.c0 = COUNTER,
                                      !.pc = "cmp_wr"])
    /\ UNCHANGED regs
    /\ RegStep(p, "HPET_COUNTER", FALSE)

\* lines 253-254: cnt += (u32) delta; hpet_write(HPET_T0_CMP, cnt)
NextEventWrite(p) ==
    /\ At(p, "hpet_next_event", "cmp_wr")
    /\ LET cnt == Add32(Top(p).cnt, CastU32(Top(p).delta))
       IN  /\ T0_CMP' = CmpVal(cnt)
           /\ stack' = Upd(p, [Top(p) EXCEPT !.cnt = cnt, !.pc = "cnt_rd2"])
    /\ UNCHANGED <<HPET_CFG, COUNTER, COUNTER_HI, T0_CFG, STATUS>>
    /\ RegStep(p, "HPET_T0_CMP", TRUE)

\* lines 256-258: res = (s32)(cnt - hpet_read(HPET_COUNTER));
\* return res < HPET_MIN_CYCLES ? -ETIME : 0
NextEventCheck(p) ==
    /\ At(p, "hpet_next_event", "cnt_rd2")
    /\ LET res == Sub32(Top(p).cnt, COUNTER)
       IN  stack' = Upd(p, [Top(p) EXCEPT
                              !.res = res, !.c1 = COUNTER,
                              !.ret = IF BelowMinCycles(res) THEN "-ETIME"
                                      ELSE "0",
                              !.pc = "ret"])
    /\ UNCHANGED regs
    /\ RegStep(p, "HPET_COUNTER", FALSE)

\* --------------------------------------------------------- hpet_irq_handler
\* lines 267-268, 275: is_irq = hpet_read(HPET_STATUS); IRQ_NONE when the
\* timer-0 bit is clear
IrqReadStatus_untested(p) ==
    /\ At(p, "hpet_irq_handler", "st_rd")
    /\ stack' = Upd(p, [Top(p) EXCEPT !.cfg = STATUS, !.pc = "st_wr"])
    /\ UNCHANGED regs
    /\ RegStep(p, "HPET_STATUS", FALSE)

IrqReadStatus(p) ==
    /\ At(p, "hpet_irq_handler", "st_rd")
    /\ stack' = Upd(p, [Top(p) EXCEPT
                          !.cfg = STATUS,
                          !.ret = IF "T0_IRS" \in STATUS THEN ""
                                  ELSE "IRQ_NONE",
                          !.pc = IF "T0_IRS" \in STATUS THEN "st_wr"
                                 ELSE "ret"])
    /\ UNCHANGED regs
    /\ RegStep(p, "HPET_STATUS", FALSE)

\* the status register is write-one-to-clear
AckStatus(st) == st \ {"T0_IRS"}

\* line 270: hpet_write(HPET_STATUS, HPET_T0_IRS)
IrqAck(p) ==
    /\ At(p, "hpet_irq_handler", "st_wr")
    /\ STATUS' = AckStatus(STATUS)
    /\ stack' = Upd(p, [Top(p) EXCEPT !.nwr = @ + 1, !.pc = "call"])
    /\ UNCHANGED <<HPET_CFG, COUNTER, COUNTER_HI, T0_CFG, T0_CMP>>
    /\ RegStep(p, "HPET_STATUS", TRUE)

\* what the framework's event handler may call back into
Callees == LockTakers \cup {"hpet_next_event"}

CalleeFrame(fn, d) ==
    IF fn = "hpet_next_event" THEN Frame(fn, "cnt_rd", d)
    ELSE Frame(fn, "lock", NoDelta)

\* lines 271-272: cd = &per_cpu(hpet_clockevent_device, cpu);
\* cd->event_handler(cd).  The descriptor of a processor that never ran
\* setup_hpet_timer is zero-filled: its event_handler is a null pointer.
IrqDispatch(p, D) ==
    /\ At(p, "hpet_irq_handler", "call")
    /\ Local
    /\ UNCHANGED <<plat, timervals, regs, hpet_lock, calls, seqT0,
                   lastShutdown>>
    /\ IF p \notin registered
       THEN stack' = Goto(p, "oops")
       ELSE LET h == [Top(p) EXCEPT !.ncb = @ + 1, !.pc = "cb_done"]
            IN  \/ stack' = Upd(p, h)
                \/ \E fn \in Callees, d \in D :
                     stack' = [stack EXCEPT ![p] =
                                 SubSeq(@, 1, Len(@) - 1)
                                   \o <<h, CalleeFrame(fn, d)>>]

\* line 273: return IRQ_HANDLED
IrqHandled(p) ==
    /\ At(p, "hpet_irq_handler", "cb_done")
    /\ stack' = Upd(p, [Top(p) EXCEPT !.ret = "IRQ_HANDLED", !.pc = "ret"])
    /\ Local
    /\ UNCHANGED <<plat, timervals, regs, hpet_lock, calls, seqT0, lastShutdown>>

\* --------------------------------------------------------- hpet_read_counter
\* hpet_read returns int: the register's 32 bits as a signed value; the
\* cast (u64) of an int sign-extends (lines 127-130, 354)
WidenInt(w) == <<IF Neg32(w) THEN <<W16 - 1, W16 - 1>> ELSE W0, w>>

ReadCounter(p) ==
    /\ At(p, "hpet_read_counter", "rc_rd")
    /\ stack' = Upd(p, [Top(p) EXCEPT !.r64 = WidenInt(COUNTER),
                                      !.c0 = COUNTER, !.pc = "ret"])
    /\ UNCHANGED regs
    /\ RegStep(p, "HPET_COUNTER", FALSE)

\* ------------------------------------------------------------- the hardware
\* the main counter counts while the global enable bit is set: software
\* finds any later value at its next read
HwCount(S) ==
    /\ "ENABLE" \in HPET_CFG
    /\ \E c \in S \ {COUNTER} :
         /\ COUNTER' = c
         /\ COUNTER_HI' = IF Less32(c, COUNTER) THEN 1 ELSE COUNTER_HI
    /\ UNCHANGED <<plat, timervals, HPET_CFG, T0_CFG, T0_CMP, STATUS,
                   hpet_lock, stack, calls, cfgReads, seqT0>>
    /\ Touch

\* timer 0, when enabled, raises its interrupt status bit
HwFire ==
    /\ "ENABLE" \in HPET_CFG
    /\ "ENABLE" \in T0_CFG
    /\ "T0_IRS" \notin STATUS
    /\ STATUS' = STATUS \cup {"T0_IRS"}
    /\ UNCHANGED <<plat, timervals, HPET_CFG, COUNTER, COUNTER_HI, T0_CFG,
                   T0_CMP, hpet_lock, stack, calls, cfgReads, seqT0>>
    /\ Touch

\* ------------------------------------------------------------ specification
\* the steps of the driver code on processor p
SetupSteps(p) ==
    \/ SelectTimer(p) \/ HpetSetupTest(p) \/ SetBaseAddress(p)
    \/ EnableDecodeRead(p) \/ EnableDecodeWrite(p)
    \/ EnableIrqRead(p) \/ EnableIrqWrite(p)
    \/ RegisterDevice(p) \/ SetupIrq(p)

CounterSteps(p) ==
    \/ StopCounterRead(p) \/ StopCounterWrite(p)
    \/ ResetCounterLow(p) \/ ResetCounterHigh(p)
    \/ StartCounterRead(p) \/ StartCounterWrite(p)

TransitionSteps(p) ==
    \/ SpinLock(p) \/ SpinUnlock(p)
    \/ ClearComparator(p) \/ T0CfgRead(p) \/ T0CfgWrite(p)
    \/ SetComparator(p) \/ SetComparatorAgain(p)

NextEventSteps(p) ==
    \/ NextEventRead(p) \/ NextEventWrite(p) \/ NextEventCheck(p)

IrqSteps(p) ==
    \/ IrqReadStatus(p) \/ IrqAck(p) \/ IrqHandled(p)

Step(p) ==
    \/ SetupSteps(p) \/ CounterSteps(p) \/ TransitionSteps(p)
    \/ NextEventSteps(p) \/ IrqSteps(p) \/ ReadCounter(p) \/ Return(p)

AllIdle == \A q \in CPUS : stack[q] = <<>>

\* ---- Spec: the operations of several processors interleave step by step
FewCounts == {W0, W(0, 20)}

FewDeltas == {<<W0, W(0, 5)>>, <<W0, W(0, 192)>>}

Init ==
    /\ InitWith({"LS2H", "RS780E"}, {{}, {"LEVEL", "PERIODIC"}},
                {{"ENABLE"}}, {W0}, {0}, {{}, {"T0_IRS"}}, {{}})
    /\ env = EnvSettled

Next ==
    \/ \E p \in CPUS :
         \/ Step(p)
         \/ IrqDispatch(p, FewDeltas)
         \/ CallTransition(p)
         \/ CallNextEvent(p, FewDeltas)
         \/ CallReadCounter(p)
         \/ CallSuspend(p)
         \/ CallResume(p)
         \/ TakeIrq(p)
    \/ InitClocksource
    \/ HwCount(FewCounts)
    \/ HwFire

Spec == Init /\ [][Next]_vars

\* ---- SpecSerial: one operation at a time, from any register contents
\* (SETVAL is write-only for the driver: it enters T0_CFG with the first
\* enter-Periodic)
InitSerial ==
    /\ InitWith(Variants, SUBSET (T0Bits \ {"SETVAL"}), SUBSET CfgBits,
                {W(0, 20)}, {1}, {{}, {"T0_IRS"}}, {{}})
    /\ env = EnvSettled

NextSerial ==
    \/ \E p \in CPUS :
         \/ Step(p)
         \/ IrqDispatch(p, FewDeltas)
         \/ AllIdle /\ CallTransition(p)
         \/ AllIdle /\ CallNextEvent(p, FewDeltas)
         \/ AllIdle /\ CallReadCounter(p)
         \/ CallSuspend(p)
         \/ CallResume(p)
         \/ AllIdle /\ TakeIrq(p)
    \/ InitClocksource
    \/ HwCount(FewCounts)
    \/ HwFire

SpecSerial == InitSerial /\ [][NextSerial]_vars

\* ---- SpecNextEvent: hpet_next_event over counter values and deltas at the
\* ends and the middle of the 32-bit range
Samples ==
    UNION {{W(0, k), W(2^15 - 1, W16 - 1 - k), W(2^15, k),
            W(W16 - 1, W16 - 1 - k)} : k \in 0..Near}

DeltaSamples ==
    {<<up, w>> : up \in {W0, W(0, 1)},
                 w \in {W(0, 0), W(0, 15), W(0, 16), W(0, 17), W(0, 192),
                        W(2^15 - 1, W16 - 1), W(2^15, 0),
                        W(W16 - 1, W16 - 1)}}

InitNextEvent ==
    /\ InitWith({"LS2H", "RS780E"}, {{}}, {{"ENABLE"}}, Samples, {0}, {{}},
                {{}})
    /\ env = EnvSettled

NextNextEvent ==
    \/ \E p \in CPUS :
         \/ SetupSteps(p)
         \/ NextEventSteps(p)
         \/ Return(p)
         \/ AllIdle /\ CallNextEvent(p, DeltaSamples)
    \/ HwCount(Samples)

SpecNextEvent == InitNextEvent /\ [][NextNextEvent]_vars

\* ---- SpecEnv: prom_init_env on either path, then setup_hpet_timer with the
\* hub the resolver selected (loongson_pch is NULL until then)
InitEnv ==
    /\ InitWith({"NULL"}, {{}}, {{"ENABLE"}}, {W0}, {0}, {{}}, {{}})
    /\ env \in {EnvBoot(TRUE, <<>>)}
                 \cup {EnvBoot(FALSE, l) : l \in ArgLists}

NextEnv ==
    \/ EnvSteps
    \/ env.pc = "done" /\ \E p \in CPUS : SetupSteps(p)

SpecEnv == InitEnv /\ [][NextEnv]_vars

\* ---- SpecReadCounter: the clocksource read over counter values at the ends
\* and the middle of the 32-bit range
InitReadCounter ==
    /\ InitWith({"LS7A", "RS780E"}, {{}}, {{"ENABLE"}}, Samples, {0}, {{}},
                {{}})
    /\ env = EnvSettled

NextReadCounter ==
    \/ \E p \in CPUS :
         \/ SetupSteps(p)
         \/ ReadCounter(p)
         \/ Return(p)
         \/ CallReadCounter(p)
    \/ InitClocksource
    \/ HwCount(Samples)

SpecReadCounter == InitReadCounter /\ [][NextReadCounter]_vars

\* ================================================================== claims
FramesOf(p) == {stack[p][i] : i \in 1..Len(stack[p])}

FramesOfFn(fn) == {f \in UNION {FramesOf(p) : p \in CPUS} : f.fn = fn}

\* processor p's own top frame, in function fn at label l, takes the step
\* to label l2
Stepped(p, fn, l, l2) ==
    /\ At(p, fn, l)
    /\ Len(stack'[p]) = Len(stack[p])
    /\ stack'[p][Len(stack'[p])].pc = l2

\* C1: when hpet_set_state_periodic has done its last register write, T0_CFG
\* has ENABLE, PERIODIC and 32BIT set and LEVEL set exactly when
\* hpet_irq_flags has it; the counter was written to 0 while stopped, stayed
\* stopped at zero until the restart, and the global enable bit is then set.
C1_PeriodicPost ==
    \A f \in FramesOfFn("hpet_set_state_periodic") :
        /\ f.pc \in {"cmp0", "t0_rd", "t0_wr", "cmp1", "cmp2", "start_rd",
                     "start_wr"}
             => f.z /\ COUNTER = W0 /\ COUNTER_HI = 0
                    /\ "ENABLE" \notin HPET_CFG
        /\ f.pc \in {"unlock", "ret"}
             => /\ {"ENABLE", "PERIODIC", "32BIT"} \subseteq T0_CFG
                /\ ("LEVEL" \in T0_CFG) <=> ("LEVEL" \in hpet_irq_flags)
                /\ f.z
                /\ "ENABLE" \in HPET_CFG

C1_Witness ==
    \E f \in FramesOfFn("hpet_set_state_periodic") :
        f.pc = "ret" /\ pch = "RS780E" /\ "LEVEL" \notin T0_CFG

\* the 33-bit sum a + b as <<carry, high, low>>, and its order
Wide(a, b) ==
    LET l == a[2] + b[2]
        h == a[1] + b[1] + (l \div W16)
    IN  <<h \div W16, h % W16, l % W16>>

LessWide(x, y) ==
    \/ x[1] < y[1]
    \/ x[1] = y[1] /\ x[2] < y[2]
    \/ x[1] = y[1] /\ x[2] = y[2] /\ x[3] < y[3]

\* C2 as claimed: for all 32-bit c0, delta, c1, hpet_next_event returns
\* -ETIME exactly when c0 + delta < c1 + 16, and otherwise 0 with T0_CMP
\* holding c0 + delta.
C2_Original ==
    \A f \in FramesOfFn("hpet_next_event") :
        (f.pc = "ret" /\ f.delta[1] = W0)
          => /\ (f.ret = "-ETIME")
                  <=> LessWide(Wide(f.c0, f.delta[2]),
                               Wide(f.c1, Small(HPET_MIN_CYCLES)))
             /\ f.ret = "0" => T0_CMP = CmpVal(Add32(f.c0, f.delta[2]))

\* C2 amended: hpet_next_event returns -ETIME exactly when the signed 32-bit
\* value of (c0 + delta - c1) mod 2^32 is below 16, and otherwise 0 with
\* T0_CMP holding (c0 + delta) mod 2^32; that is the comparison
\* c0 + delta < c1 + 16 whenever delta < 2^31 and 0 <= c1 - c0 < 2^31.
C2_NextEvent ==
    \A f \in FramesOfFn("hpet_next_event") :
        f.pc = "ret"
          => LET d == f.delta[2]
                 cnt == Add32(f.c0, d)
                 e == Sub32(f.c1, f.c0)
             IN  /\ Add32(f.c1, f.res) = cnt
                 /\ f.ret \in {"-ETIME", "0"}
                 /\ (f.ret = "-ETIME")
                      <=> (f.res[1] >= 2^15
                           \/ Less32(f.res, Small(HPET_MIN_CYCLES)))
                 /\ f.ret = "0" => T0_CMP = CmpVal(cnt)
                 /\ (d[1] < 2^15 /\ ~Less32(f.c1, f.c0) /\ e[1] < 2^15)
                      => ((f.ret = "-ETIME")
                            <=> LessWide(Wide(f.c0, d),
                                         Wide(f.c1, Small(HPET_MIN_CYCLES))))

C2_Witness ==
    \E f \in FramesOfFn("hpet_next_event") :
        /\ f.pc = "ret" /\ f.ret = "0"
        /\ Less32(Add32(f.c0, f.delta[2]), f.c0)
        /\ T0_CMP = CmpVal(Add32(f.c0, f.delta[2]))

\* C3: a run of hpet_irq_handler that read the timer-0 status bit clear
\* returns IRQ_NONE with no status write and no callback; one that read it
\* set writes the status register exactly once, before the callback, invokes
\* the callback exactly once and returns IRQ_HANDLED.
C3_IrqHandler ==
    \A f \in FramesOfFn("hpet_irq_handler") :
        /\ f.nwr <= 1 /\ f.ncb <= 1
        /\ f.ncb = 1 => f.nwr = 1
        /\ f.pc = "call" => f.nwr = 1 /\ f.ncb = 0
        /\ (f.pc # "st_rd" /\ "T0_IRS" \notin f.cfg)
             => f.pc = "ret" /\ f.ret = "IRQ_NONE" /\ f.nwr = 0 /\ f.ncb = 0
        /\ (f.pc = "ret" /\ "T0_IRS" \in f.cfg)
             => f.ret = "IRQ_HANDLED" /\ f.nwr = 1 /\ f.ncb = 1
        /\ f.ret = "IRQ_HANDLED" => "T0_IRS" \in f.cfg

C3_Witness ==
    \E f \in FramesOfFn("hpet_irq_handler") :
        f.pc = "ret" /\ f.ret = "IRQ_HANDLED" /\ f.nwr = 1 /\ f.ncb = 1

\* the labels at which the next step reads or writes an HPET register
AccessPcs == {"stop_rd", "stop_wr", "rst_lo", "rst_hi", "start_rd",
              "start_wr", "cmp0", "t0_rd", "t0_wr", "cmp1", "cmp2",
              "cnt_rd", "cmp_wr", "cnt_rd2", "st_rd", "st_wr", "rc_rd"}

\* processor p is between the first and the last register access of
\* hpet_set_state_periodic
InPeriodic(p) ==
    \E f \in FramesOf(p) :
        /\ f.fn = "hpet_set_state_periodic"
        /\ f.pc \in {"stop_wr", "rst_lo", "rst_hi", "cmp0", "t0_rd", "t0_wr",
                     "cmp1", "cmp2", "start_rd", "start_wr"}

\* processor q's top frame takes a step that accesses an HPET register
Accesses(q) ==
    /\ stack[q] # <<>>
    /\ Top(q).pc \in AccessPcs
    /\ stack'[q] # stack[q]

\* C4 as claimed: while a processor is inside the enter-Periodic
\* reconfiguration, no operation on another processor accesses a timer
\* register.
C4_Original ==
    [][\A p, q \in CPUS : (p # q /\ InPeriodic(p)) => ~Accesses(q)]_vars

\* C4 amended: while a processor is inside the enter-Periodic
\* reconfiguration, no Shutdown, enter-Periodic, enter-OneShot or tick
\* resume on another processor accesses a timer register (the operations
\* that do not take hpet_lock may).
C4_LockTakersExcluded ==
    [][\A p, q \in CPUS :
         (p # q /\ InPeriodic(p) /\ Accesses(q))
           => Top(q).fn \notin LockTakers]_vars

C4_Witness ==
    \E p, q \in CPUS :
        /\ p # q /\ InPeriodic(p)
        /\ At(q, "hpet_set_state_shutdown", "lock")

\* processor p is between spin_lock and spin_unlock
InCritical(p) ==
    \E f \in FramesOf(p) :
        f.fn \in LockTakers /\ f.pc \notin {"lock", "ret"}

\* C5: at most one processor is between acquiring and releasing hpet_lock,
\* a transition writes T0_CFG while the value it read is still the
\* register's, and with the lock free T0_CFG is what the transitions so far
\* make of it one after another in the order they took the lock.
C5_Serialized ==
    /\ \A p, q \in CPUS : (InCritical(p) /\ InCritical(q)) => p = q
    /\ \A p \in CPUS : InCritical(p) <=> hpet_lock = p
    /\ \A f \in UNION {FramesOfFn(fn) : fn \in Transitions} :
         f.pc = "t0_wr" => f.cfg = T0_CFG
    /\ hpet_lock = 0 => T0_CFG = seqT0

C5_Witness ==
    \E p, q \in CPUS :
        /\ p # q
        /\ At(p, "hpet_set_state_periodic", "ret")
        /\ At(q, "hpet_set_state_shutdown", "ret")
        /\ "ENABLE" \in T0_CFG

\* the SMBus fixups of hpet_setup are complete: the last three bus writes
\* are the relocation register, the decode enable and the IRQ enable
FixupsDone ==
    /\ Len(busWrites) >= 3
    /\ SubSeq(busWrites, Len(busWrites) - 2, Len(busWrites))
         = <<"REGB4", "REG40", "REG64">>
    /\ smbus.b4 = "HPET_ADDR"
    /\ "bit28" \in smbus.r40
    /\ "bit10" \in smbus.r64

\* C6: in hpet_resume the bridge fixups (on RS780E, two more sets of three
\* bus writes than none) are complete before the first counter access; the
\* counter is written to zero while stopped, stays stopped at zero until
\* the restart, and at the end the global enable bit is set.
C6_Resume ==
    \A f \in FramesOfFn("hpet_resume") :
        /\ f.pc \in {"pch_rd", "b4_wr", "r40_rd", "r40_wr", "r64_rd", "r64_wr"}
             => ~f.z
        /\ f.pc \in {"stop_rd", "stop_wr", "rst_lo", "rst_hi", "start_rd",
                     "start_wr", "ret"}
             => IF pch = "RS780E"
                THEN FixupsDone /\ Len(busWrites) >= 6
                ELSE busWrites = <<>>
        /\ f.pc \in {"start_rd", "start_wr"}
             => f.z /\ COUNTER = W0 /\ COUNTER_HI = 0
                    /\ "ENABLE" \notin HPET_CFG
        /\ f.pc = "ret" => f.z /\ "ENABLE" \in HPET_CFG

C6_Witness ==
    \E f \in FramesOfFn("hpet_resume") :
        f.pc = "ret" /\ pch = "RS780E" /\ "LEGACY" \in HPET_CFG

\* C7 as claimed: after setup_hpet_timer no operation reads loongson_pch or
\* loongson_sysconf.
C7_Original == cfgReads = {}

\* C7 amended: after setup_hpet_timer only the clocksource resume operation
\* (hpet_resume, through hpet_setup) reads loongson_pch and
\* loongson_sysconf; the mode transitions, program-next-event, the interrupt
\* handler, the clocksource read and suspend read neither.
C7_OnlyResumeRereads ==
    /\ \A r \in cfgReads : r[1] = "hpet_resume"
    /\ \A f \in FramesOfFn("hpet_resume") :
         f.pc \in {"stop_rd", "ret"}
           => /\ <<"hpet_resume", "loongson_pch">> \in cfgReads
              /\ pch = "RS780E"
                   => <<"hpet_resume", "loongson_sysconf">> \in cfgReads

C7_Witness ==
    /\ \E f \in FramesOfFn("hpet_resume") : f.pc = "ret"
    /\ cfgReads = {<<"hpet_resume", "loongson_pch">>,
                   <<"hpet_resume", "loongson_sysconf">>}
    /\ lastShutdown.fn = ""

\* C8 as claimed: no operation waits forever, so no processor ever spins in
\* spin_lock on hpet_lock while the holder is the operation it interrupted.
C8_NoWaitForever ==
    \A p \in CPUS : PcIs(p, "lock") => hpet_lock # p

\* a processor that spins on the lock its own interrupted operation holds
\* stays there: the holder resumes only when the spinning frame returns
SelfDeadlock(p) == PcIs(p, "lock") /\ hpet_lock = p

SelfDeadlockIsPermanent ==
    [][\A p \in CPUS : SelfDeadlock(p) => SelfDeadlock(p)']_vars

\* C9: of the steps of hpet_set_state_shutdown only the T0_CFG write changes
\* a register: it clears ENABLE in T0_CFG and leaves every other bit and
\* register alone; a Shutdown that follows a Shutdown with no register
\* change between them leaves the registers as the first did.
C9_Shutdown ==
    [][\A p \in CPUS :
         /\ Stepped(p, "hpet_set_state_shutdown", "t0_wr", "unlock")
              => /\ T0_CFG' = T0_CFG \ {"ENABLE"}
                 /\ UNCHANGED <<HPET_CFG, COUNTER, COUNTER_HI, T0_CMP, STATUS>>
                 /\ lastShutdown.fn # "" => Snapshot' = lastShutdown.regs
         /\ \/ Stepped(p, "hpet_set_state_shutdown", "lock", "t0_rd")
            \/ Stepped(p, "hpet_set_state_shutdown", "t0_rd", "t0_wr")
            \/ Stepped(p, "hpet_set_state_shutdown", "unlock", "ret")
              => UNCHANGED regs]_vars

C9_Witness ==
    \E p \in CPUS :
        /\ At(p, "hpet_set_state_shutdown", "unlock")
        /\ lastShutdown.fn = "hpet_set_state_shutdown"
        /\ "PERIODIC" \in T0_CFG

\* C10: of the steps of hpet_set_state_oneshot only the T0_CFG write changes
\* a register: it clears PERIODIC, sets ENABLE and 32BIT, leaves every other
\* T0_CFG bit as it was and writes neither the counter, the comparator nor
\* the global configuration register.
C10_Oneshot ==
    [][\A p \in CPUS :
         /\ Stepped(p, "hpet_set_state_oneshot", "t0_wr", "unlock")
              => /\ "PERIODIC" \notin T0_CFG'
                 /\ {"ENABLE", "32BIT"} \subseteq T0_CFG'
                 /\ T0_CFG' \ {"PERIODIC", "ENABLE", "32BIT"}
                      = T0_CFG \ {"PERIODIC", "ENABLE", "32BIT"}
                 /\ UNCHANGED <<HPET_CFG, COUNTER, COUNTER_HI, T0_CMP, STATUS>>
         /\ \/ Stepped(p, "hpet_set_state_oneshot", "lock", "t0_rd")
            \/ Stepped(p, "hpet_set_state_oneshot", "t0_rd", "t0_wr")
            \/ Stepped(p, "hpet_set_state_oneshot", "unlock", "ret")
              => UNCHANGED regs]_vars

C10_Witness ==
    \E p \in CPUS :
        /\ At(p, "hpet_set_state_oneshot", "ret")
        /\ {"SETVAL", "LEVEL", "ENABLE", "32BIT"} \subseteq T0_CFG
        /\ "PERIODIC" \notin T0_CFG

\* C11: in setup_hpet_timer the bus-configuration writes are made only for
\* RS780E, as exactly the three writes REGB4, REG40, REG64 in this order
\* (base address, bit 28, bit 10), and none for any other hub; they are
\* complete before the clock-event device is registered, and the interrupt
\* handler is installed once, after the registration.
C11_SetupOrder ==
    /\ irqInstalled => BootCpu \in registered
    /\ \A f \in FramesOfFn("setup_hpet_timer") :
         /\ f.pc \in {"select", "pch_rd", "b4_wr", "r40_rd", "r40_wr",
                       "r64_rd", "r64_wr", "register"}
              => registered = {} /\ ~irqInstalled
         /\ f.pc \in {"b4_wr", "r40_rd", "r40_wr", "r64_rd", "r64_wr"}
              => pch = "RS780E"
         /\ f.pc \in {"select", "pch_rd", "b4_wr"} => busWrites = <<>>
         /\ f.pc \in {"r40_rd", "r40_wr"} => busWrites = <<"REGB4">>
         /\ f.pc \in {"r64_rd", "r64_wr"} => busWrites = <<"REGB4", "REG40">>
         /\ f.pc \in {"register", "setup_irq"}
              => IF pch = "RS780E"
                 THEN /\ busWrites = <<"REGB4", "REG40", "REG64">>
                      /\ smbus.b4 = "HPET_ADDR"
                      /\ "bit28" \in smbus.r40
                      /\ "bit10" \in smbus.r64
                 ELSE busWrites = <<>> /\ smbus.b4 = "0"
         /\ f.pc = "setup_irq" => registered = {BootCpu} /\ ~irqInstalled
         /\ f.pc = "ret" => registered = {BootCpu} /\ irqInstalled

C11_Witness ==
    \E f \in FramesOfFn("setup_hpet_timer") :
        /\ f.pc = "ret" /\ pch = "RS780E"
        /\ busWrites = <<"REGB4", "REG40", "REG64">>
        /\ irqInstalled

\* C12 as claimed: hpet_read_counter returns the counter value c it read
\* with the upper 32 bits zero, for every c including c >= 2^31.
C12_ZeroExtended ==
    \A f \in FramesOfFn("hpet_read_counter") :
        f.pc = "ret" => f.r64 = <<W0, f.c0>>

\* what the code does: the low word is c, the upper word is all ones when
\* bit 31 of c is set
ReadCounterSignExtends ==
    \A f \in FramesOfFn("hpet_read_counter") :
        f.pc = "ret"
          => /\ f.r64[2] = f.c0
             /\ f.r64[1] = IF f.c0[1] >= 2^15 THEN W(W16 - 1, W16 - 1)
                            ELSE W0

\* C20: with a hub type that is none of LS2H, LS7A and RS780E (the dummy
\* hub of the legacy path) setup_hpet_timer takes no error path, leaves
\* hpet_freq, hpet_t0_irq, hpet_mmio_base and hpet_irq_flags zero, writes
\* nothing to the bus configuration space, and registers the clock-event
\* device and installs the interrupt handler all the same.
C20_NoValidation ==
    (env.pc = "done" /\ pch \notin {"LS2H", "LS7A", "RS780E"})
      => /\ hpet_freq = "0" /\ hpet_t0_irq = "0" /\ hpet_mmio_base = "0"
         /\ hpet_irq_flags = {}
         /\ busWrites = <<>> /\ smbus.b4 = "0"
         /\ \A f \in FramesOfFn("setup_hpet_timer") :
              /\ f.pc \in {"select", "pch_rd", "register", "setup_irq",
                            "ret"}
              /\ f.ret = ""
              /\ f.pc = "setup_irq" => registered = {BootCpu}
              /\ f.pc = "ret" => registered = {BootCpu} /\ irqInstalled

C20_Witness ==
    /\ ~env.lefi /\ env.pc = "done" /\ pch = "DUMMY"
    /\ \E f \in FramesOfFn("setup_hpet_timer") : f.pc = "ret"
    /\ irqInstalled /\ hpet_freq = "0"

\* the entries of the sample lists that are "cpuclock=N" with N a 32-bit
\* decimal, and the N each states
WellFormedClock == {ArgCpuclock, ArgCpuclockZero, ArgCpuclockMax}

StatedClock(e) ==
    CASE e = ArgCpuclock -> U32(800000000)
      [] e = ArgCpuclockZero -> W0
      [] e = ArgCpuclockMax -> W(W16 - 1, W16 - 1)

\* the frequencies of the revision table, env.c:237-258
DefaultFreqs == {U32(533080000), U32(797000000), U32(900000000),
                 U32(1000000000), U32(100000000)}

\* the positions of the entries of the argument list that begin with key
Beginning(key) == {i \in DOMAIN env.list : Prefix(key, env.list[i])}

LastOf(I) == CHOOSE i \in I : \A j \in I : j <= i

LegacyDone == ~env.lefi /\ env.pc = "done"

\* C13 as claimed: on the legacy path a list containing "cpuclock=N", N any
\* 32-bit decimal including 0, ends with cpu_clock_freq = N; without a
\* memsize entry memsize is 256; the hub is the dummy hub and nr_uarts is 1.
C13_Original ==
    LegacyDone
      => /\ \A i \in DOMAIN env.list :
              env.list[i] \in WellFormedClock
                => env.cpu_clock_freq = StatedClock(env.list[i])
         /\ Beginning(KeyMemsize) = {} => env.memsize = U32(256)
         /\ pch = "DUMMY" /\ env.sys.nr_uarts = 1

\* C13 amended: when the last entry beginning with "cpuclock" is
\* "cpuclock=N" with N a non-zero 32-bit decimal, cpu_clock_freq ends as N;
\* when it is "cpuclock=0", or no entry begins with "cpuclock", the
\* frequency is taken from the processor-revision table; cpu_clock_freq is
\* never 0 at the end.  With no entry beginning with "memsize", memsize is
\* 256; the hub is the dummy hub and nr_uarts is 1; a list whose entries
\* begin with none of the three key names leaves memsize 256, highmemsize 0
\* and the frequency from the table.
C13_Legacy ==
    LegacyDone
      => LET I == Beginning(KeyCpuclock)
             last == env.list[LastOf(I)]
         IN  /\ (I # {} /\ last \in WellFormedClock
                         /\ StatedClock(last) # W0)
                  => env.cpu_clock_freq = StatedClock(last)
             /\ (I = {} \/ last = ArgCpuclockZero)
                  => env.cpu_clock_freq \in DefaultFreqs
             /\ env.cpu_clock_freq # W0
             /\ Beginning(KeyMemsize) = {} => env.memsize = U32(256)
             /\ (Beginning(KeyMemsize) # {}
                   /\ env.list[LastOf(Beginning(KeyMemsize))] = ArgMemsize)
                  => env.memsize = U32(512)
             /\ pch = "DUMMY" /\ env.sys.nr_uarts = 1
             /\ (I = {} /\ Beginning(KeyMemsize) = {}
                         /\ Beginning(KeyHighmemsize) = {})
                  => /\ env.memsize = U32(256)
                     /\ env.highmemsize = W0
                     /\ env.cpu_clock_freq \in DefaultFreqs

C13_Witness ==
    /\ LegacyDone
    /\ env.list = <<ArgCpuclock, ArgMemsize>>
    /\ env.cpu_clock_freq = U32(800000000)
    /\ env.memsize = U32(512)
    /\ pch = "DUMMY"

\* the modern path is past the section that ends at label l
ModernPast(ls) == env.lefi /\ env.pc \in ls

\* C14: once the CPU-type switch has run, a 3A-family type has
\* cores_per_node = cores_per_package = 4 and the CPU-frequency workaround;
\* a 3B-family type has cores_per_node = 4, cores_per_package = 8, the
\* hot-plug workaround and SMP-group addresses other than the 3A table;
\* any other type has cores_per_node = cores_per_package = 1; and the
\* final workarounds field is the type's constant OR-ed with the
\* firmware's field.
C14_CpuType ==
    ModernPast({"counts", "dma", "hub", "sys", "freq", "done"})
      => LET t == env.sys.cputype
             own == CASE t \in {"Legacy_3A", "Loongson_3A"} -> {"CPUFREQ"}
                      [] t \in {"Legacy_3B", "Loongson_3B"} -> {"CPUHOTPLUG"}
                      [] OTHER -> {}
             table3A == <<"0x900000003ff01000", "0x900010003ff01000",
                          "0x900020003ff01000", "0x900030003ff01000">>
         IN  /\ env.pc = "counts" => t = env.in.cputype
             /\ t \in {"Legacy_3A", "Loongson_3A"}
                  => /\ env.sys.cores_per_node = 4
                     /\ env.sys.cores_per_package = 4
                     /\ env.smp_group = table3A
             /\ t \in {"Legacy_3B", "Loongson_3B"}
                  => /\ env.sys.cores_per_node = 4
                     /\ env.sys.cores_per_package = 8
                     /\ env.smp_group # table3A
             /\ t \notin {"Legacy_3A", "Loongson_3A", "Legacy_3B",
                           "Loongson_3B"}
                  => /\ env.sys.cores_per_node = 1
                     /\ env.sys.cores_per_package = 1
             /\ env.pc \in {"counts", "dma", "hub", "sys"}
                  => env.sys.workarounds = own
             /\ env.pc = "freq"
                  => env.sys.workarounds = own \cup env.in.workarounds
             /\ own \subseteq env.sys.workarounds

C14_Witness ==
    /\ ModernPast({"freq"})
    /\ env.sys.cputype = "Loongson_3A"
    /\ env.sys.workarounds = {"CPUFREQ", "CPUHOTPLUG"}

\* C15: the stored nr_cpus is the firmware's n when 1 <= n <= NR_CPUS and
\* NR_CPUS otherwise, so it lies in 1..NR_CPUS; cores_per_node is never 0
\* and nr_nodes is the ceiling of nr_cpus / cores_per_node, at least 1.
C15_CpuCount ==
    ModernPast({"dma", "hub", "sys", "freq", "done"})
      => LET n == env.in.nr_cpus
             c == env.sys.nr_cpus
             per == env.sys.cores_per_node
             nodes == env.sys.nr_nodes
         IN  /\ env.pc = "dma"
                  => c = IF 1 <= n /\ n <= NR_CPUS THEN n ELSE NR_CPUS
             /\ c \in 1..NR_CPUS
             /\ per >= 1
             /\ nodes >= 1
             /\ nodes * per >= c
             /\ (nodes - 1) * per < c

C15_Witness ==
    /\ ModernPast({"dma"})
    /\ env.in.nr_cpus = 0
    /\ env.sys.nr_cpus = NR_CPUS
    /\ env.sys.cores_per_node = 4
    /\ env.sys.nr_nodes >= 2

LowerCase ==
    <<"a", "b", "c", "d", "e", "f", "g", "h", "i", "j", "k", "l", "m",
      "n", "o", "p", "q", "r", "s", "t", "u", "v", "w", "x", "y",
      "z">>

UpperCase ==
    <<"A", "B", "C", "D", "E", "F", "G", "H", "I", "J", "K", "L", "M",
      "N", "O", "P", "Q", "R", "S", "T", "U", "V", "W", "X", "Y",
      "Z">>

ToUpper(c) ==
    IF \E i \in 1..Len(LowerCase) : LowerCase[i] = c
    THEN UpperCase[CHOOSE i \in 1..Len(LowerCase) : LowerCase[i] = c]
    ELSE c

\* name without regard to case contains pat
ContainsNoCase(name, pat) ==
    Contains([i \in 1..Len(name) |-> ToUpper(name[i])],
             [i \in 1..Len(pat) |-> ToUpper(pat[i])])

\* C16 as claimed: the hub is selected by a case-insensitive substring
\* match: a board name containing "2H" or "2h" selects LS2H, one containing
\* "7A" or "7a" and no 2H match selects LS7A, any other name RS780E.
C16_CaseInsensitive ==
    ModernPast({"sys"})
      => pch = IF ContainsNoCase(env.in.name, <<"2", "H">>) THEN "LS2H"
               ELSE IF ContainsNoCase(env.in.name, <<"7", "A">>) THEN "LS7A"
               ELSE "RS780E"

\* what the code does: only the upper-case spellings match
HubMatchIsCaseSensitive ==
    ModernPast({"sys"})
      => /\ env.in.name = BoardLower2h => pch = "RS780E"
         /\ env.in.name = BoardLower7a => pch = "RS780E"
         /\ env.in.name = Board2H => pch = "LS2H"
         /\ env.in.name = Board7A1000 => pch = "LS7A"

\* C17: a board name containing "2H" selects LS2H whether or not it also
\* contains "7A" and in either order; one containing "7A" and not "2H"
\* selects LS7A; one containing neither selects RS780E.  ec_sci_irq is 0x80
\* for LS2H and 0x07 otherwise, and the devicetree blob is the firmware's
\* pointer exactly when the version is >= 2 and the pointer is non-zero,
\* else the selected hub's default blob.
C17_HubPriority ==
    ModernPast({"sys"})
      => LET name == env.in.name
             has2H == \E i \in 1..(Len(name) - 1) :
                         name[i] = "2" /\ name[i + 1] = "H"
             has7A == \E i \in 1..(Len(name) - 1) :
                         name[i] = "7" /\ name[i + 1] = "A"
         IN  /\ has2H => pch = "LS2H"
             /\ (has7A /\ ~has2H) => pch = "LS7A"
             /\ (~has7A /\ ~has2H) => pch = "RS780E"
             /\ name = Board2H7A => pch = "LS2H"
             /\ name = Board7A2H => pch = "LS2H"
             /\ env.sys.ec_sci_irq = IF pch = "LS2H" THEN 128 ELSE 7
             /\ (env.in.vers >= 2 /\ env.in.of_dtb_addr # "0")
                  => env.fdt = env.in.of_dtb_addr
             /\ ~(env.in.vers >= 2 /\ env.in.of_dtb_addr # "0")
                  => env.fdt = CASE pch = "LS2H" ->
                                      "__dtb_loongson3_ls2h_begin"
                                 [] pch = "LS7A" ->
                                      "__dtb_loongson3_ls7a_begin"
                                 [] pch = "RS780E" ->
                                      "__dtb_loongson3_rs780_begin"

C17_Witness ==
    /\ ModernPast({"sys"})
    /\ env.in.name = Board7A2H
    /\ pch = "LS2H"
    /\ env.in.vers = 1 /\ env.in.of_dtb_addr # "0"
    /\ env.fdt = "__dtb_loongson3_ls2h_begin"

C19_DmaMask ==
    ModernPast({"hub", "sys", "freq", "done"})
      => LET w == env.in.dma_mask_bits
         IN  /\ env.pc = "hub"
                  => env.sys.dma_mask_bits
                       = IF 32 <= w /\ w <= 64 THEN w ELSE 32
             /\ env.sys.dma_mask_bits \in 32..64

C19_Witness ==
    /\ ModernPast({"hub"})
    /\ env.in.dma_mask_bits = 64
    /\ env.sys.dma_mask_bits = 64


\* no mode transition is in progress on any processor
NoTransitionRunning == \A fn \in Transitions : FramesOfFn(fn) = {}

\* processor p's top frame, in function fn, takes a step
StepsIn(p, fn) ==
    /\ stack[p] # <<>>
    /\ Top(p).fn = fn
    /\ stack'[p] # stack[p]

\* C21: once setup is done and while no mode transition is in progress, the
\* ENABLE bit of T0_CFG is set exactly when the mode transition that
\* completed last was enter-Periodic or enter-OneShot (clear when it was
\* Shutdown), and PERIODIC is clear when it was enter-OneShot; no step of
\* hpet_tick_resume or hpet_next_event changes T0_CFG.
C21_ModeInvariant ==
    /\ [](NoTransitionRunning /\ lastMode # ""
            => /\ "ENABLE" \in T0_CFG
                    <=> lastMode \in {"hpet_set_state_periodic",
                                      "hpet_set_state_oneshot"}
               /\ "ENABLE" \notin T0_CFG
                    <=> lastMode = "hpet_set_state_shutdown"
               /\ lastMode = "hpet_set_state_oneshot"
                    => "PERIODIC" \notin T0_CFG)
    /\ [][\A p \in CPUS :
            StepsIn(p, "hpet_tick_resume") \/ StepsIn(p, "hpet_next_event")
              => T0_CFG' = T0_CFG]_vars

\* a program-next-event has returned after a completed enter-OneShot
C21_Witness ==
    /\ AllIdle
    /\ calls = MaxCalls
    /\ lastMode = "hpet_set_state_oneshot"
    /\ lastShutdown = NoDone
    /\ T0_CMP.sym = "" /\ T0_CMP.v # W0
    /\ "ENABLE" \in T0_CFG


\* C22: a run of hpet_irq_handler that reaches the callback invocation
\* (status bit read set) runs on a processor whose per-processor descriptor
\* setup_hpet_timer populated and registered, on whichever processor the
\* interrupt is taken: no invocation goes through a descriptor that was
\* never registered.
C22_RegisteredDescriptor ==
    \A p \in CPUS : \A f \in FramesOf(p) :
        (f.fn = "hpet_irq_handler" /\ f.pc \in {"cb_done", "oops"})
            => p \in registered

\* setup registers the descriptor of the processor that ran it and no other;
\* the handler's callback invocation fails exactly on the other processors
OnlySetupCpuDispatches ==
    /\ registered \subseteq {BootCpu}
    /\ \A p \in CPUS : \A f \in FramesOf(p) :
         f.fn = "hpet_irq_handler"
           => /\ f.pc = "oops" => p # BootCpu /\ "T0_IRS" \in f.cfg
              /\ f.pc = "cb_done" => p = BootCpu /\ f.ncb = 1

====
